---- MODULE Spec2Model ----
(***************************************************************************)
(* Model of src/app.py (Series Progress): the field parsers, the status    *)
(* classifier, the genre normaliser, the enrichment and sort of the result *)
(* rows, and the script run of one search request.                         *)
(*                                                                         *)
(* Strings are sequences of one-character strings; None is the one-element *)
(* sequence <<"None">>, which no text of the model equals.  A percentage   *)
(* is held in tenths of a percent (27.8 is 278).                           *)
(***************************************************************************)
EXTENDS Integers, Sequences, FiniteSets, TLC

VARIABLES
    pc,      \* position of the run being modelled
    value,   \* parse_season_episodes: its argument
    tally,   \* parse_season_episodes: the returned (watched, total, percent)
    progress,  \* parse_progress: its argument
    prog,      \* parse_progress: the returned dict
    raw_genre_text,  \* normalize_genres: its argument
    normalized,      \* normalize_genres: the returned list
    renormalized,    \* normalize_genres of the returned list joined by commas
    rows,       \* the rows of the query
    df,         \* the enriched rows, sorted
    exception,  \* the exception that ended the run, "" if none
    failed,     \* the call that raised it, "" if none
    zoekterm,   \* the text of the search box
    dbCached,   \* st.cache_data holds the result of download_db
    posterCache,  \* st.cache_data of get_tmdb_poster: the result per tmdb_id
    cursor,     \* the row the render loop is at
    poster_url, \* the result of get_tmdb_poster for that row
    lookup,     \* how that result came about
    cards,      \* the cards rendered by this run
    fetches,    \* requests.get calls of download_db in this run
    lookups     \* requests.get calls of get_tmdb_poster in this run

vars == <<pc, value, tally, progress, prog, raw_genre_text, normalized, renormalized,
          rows, df, exception, failed, zoekterm, dbCached, posterCache, cursor,
          poster_url, lookup, cards, fetches, lookups>>

\* the state of the script run, untouched by the calls of a single function
runVars == <<failed, zoekterm, dbCached, posterCache, cursor, poster_url, lookup,
             cards, fetches, lookups>>

NoRun ==
    /\ failed = ""
    /\ zoekterm = <<>>
    /\ dbCached = FALSE
    /\ posterCache = <<>>
    /\ cursor = 0
    /\ poster_url = <<>>
    /\ lookup = ""
    /\ cards = <<>>
    /\ fetches = 0
    /\ lookups = 0

\* ------------------------------------------------------------------------
\* Bounds
\* ------------------------------------------------------------------------
MaxTallyLen == 4

MaxProgressLen == 3

MaxDateLen == 2

MaxGenreTokens == 3

MaxRows == 2

MaxResultRows == 2

\* ------------------------------------------------------------------------
\* Python values and str methods
\* ------------------------------------------------------------------------
None == <<"None">>

Whitespace == {" "}

Digits == {"0", "1", "2", "3", "4", "5", "6", "7", "8", "9"}

\* all sequences over S of length 0..n
SeqsUpTo(S, n) == UNION {[1..k -> S] : k \in 0..n}

\* bool(x) of a str or None
Truthy(s) == s # None /\ s # <<>>

\* dict.get(key, default)
Get(d, key, default) == IF key \in DOMAIN d THEN d[key] ELSE default

RECURSIVE LStrip(_)
LStrip(s) ==
    IF s = <<>> THEN s
    ELSE IF Head(s) \in Whitespace THEN LStrip(Tail(s)) ELSE s

RECURSIVE RStrip(_)
RStrip(s) ==
    IF s = <<>> THEN s
    ELSE IF s[Len(s)] \in Whitespace THEN RStrip(SubSeq(s, 1, Len(s) - 1)) ELSE s

\* str.strip()
Strip(s) == RStrip(LStrip(s))

\* str.split(sep) for a one-character sep: always at least one part
RECURSIVE Split(_, _)
Split(s, sep) ==
    IF \A i \in 1..Len(s) : s[i] # sep THEN <<s>>
    ELSE LET i == CHOOSE k \in 1..Len(s) : s[k] = sep /\ \A j \in 1..(k - 1) : s[j] # sep
         IN  <<SubSeq(s, 1, i - 1)>> \o Split(SubSeq(s, i + 1, Len(s)), sep)

DigitValue(c) ==
    CASE c = "0" -> 0 [] c = "1" -> 1 [] c = "2" -> 2 [] c = "3" -> 3
      [] c = "4" -> 4 [] c = "5" -> 5 [] c = "6" -> 6 [] c = "7" -> 7
      [] c = "8" -> 8 [] c = "9" -> 9

RECURSIVE DigitsValue(_)
DigitsValue(s) ==
    IF s = <<>> THEN 0
    ELSE 10 * DigitsValue(SubSeq(s, 1, Len(s) - 1)) + DigitValue(s[Len(s)])

AllDigits(s) == s # <<>> /\ \A i \in 1..Len(s) : s[i] \in Digits

\* int(s) succeeds: surrounding whitespace, one optional sign, then digits
IsInt(s) ==
    LET b == Strip(s)
    IN  /\ b # <<>>
        /\ IF b[1] \in {"+", "-"} THEN AllDigits(Tail(b)) ELSE AllDigits(b)

\* A Python int is unbounded, a float is not.  The model holds a count of
\* fewer than HugeDigits digits exactly; a count of HugeDigits digits or more
\* is held as Huge (or -Huge), a magnitude of at least 10^(HugeDigits - 1),
\* whose quotient by any exactly held total is beyond the largest float
\* (about 1.8 * 10^308).
HugeDigits == 320

Huge == 2000000000

IsHuge(n) == n >= Huge \/ n <= 0 - Huge

RECURSIVE StripZeros(_)
StripZeros(s) ==
    IF Len(s) > 1 /\ Head(s) = "0" THEN StripZeros(Tail(s)) ELSE s

\* the value of a run of digits
Magnitude(s) ==
    IF Len(StripZeros(s)) >= HugeDigits THEN Huge ELSE DigitsValue(StripZeros(s))

\* int(s), for IsInt(s)
IntValue(s) ==
    LET b == Strip(s)
    IN  IF b[1] = "-" THEN 0 - Magnitude(Tail(b))
        ELSE IF b[1] = "+" THEN Magnitude(Tail(b))
        ELSE Magnitude(b)

\* a + b on Python ints: a huge count absorbs an exactly held one
PyAdd(a, b) ==
    IF IsHuge(a) THEN a ELSE IF IsHuge(b) THEN b ELSE a + b

\* round(x, 0) of the quotient num / den (den > 0), ties to the even neighbour
RoundHalfEven(num, den) ==
    LET q == num \div den
        r == num - q * den
    IN  IF 2 * r < den THEN q
        ELSE IF 2 * r > den THEN q + 1
        ELSE IF q % 2 = 0 THEN q ELSE q + 1

\* ------------------------------------------------------------------------
\* parse_season_episodes
\* ------------------------------------------------------------------------
Sentinel == <<"#", "N", "/", "A">>

\* one iteration of the for loop: the try body runs statement by statement,
\* and the except clause keeps whatever was already assigned
TallyPart(acc, part) ==
    LET wt == Split(part, "/")
    IN  IF Len(wt) # 2 THEN acc
        ELSE IF ~IsInt(wt[1]) THEN acc
        ELSE IF ~IsInt(wt[2])
             THEN [watched |-> PyAdd(acc.watched, IntValue(wt[1])), total |-> acc.total]
        ELSE [watched |-> PyAdd(acc.watched, IntValue(wt[1])),
              total   |-> PyAdd(acc.total, IntValue(wt[2]))]

RECURSIVE TallyLoop(_, _)
TallyLoop(acc, parts) ==
    IF parts = <<>> THEN acc
    ELSE TallyLoop(TallyPart(acc, Head(parts)), Tail(parts))

\* watched / total raises OverflowError: the quotient is too large for a float
DivisionOverflows(watched, total) ==
    total > 0 /\ IsHuge(watched) /\ ~IsHuge(total)

\* round((watched / total) * 100, 1) if total > 0 else 0, in tenths of a
\* percent; the rounding is taken on the exact quotient
Percent(watched, total) ==
    CASE total <= 0 -> 0
      [] total > 0 /\ ~IsHuge(watched) /\ ~IsHuge(total) ->
             RoundHalfEven(1000 * watched, total)
      [] total > 0 /\ ~IsHuge(watched) /\ IsHuge(total) -> 0

\* the returned triple, or the exception that leaves the function
parse_season_episodes(v) ==
    IF ~Truthy(v) \/ Strip(v) = Sentinel
    THEN [raised |-> "", watched |-> 0, total |-> 0, percent |-> 0]
    ELSE LET acc == TallyLoop([watched |-> 0, total |-> 0], Split(v, "§"))
         IN  IF DivisionOverflows(acc.watched, acc.total)
             THEN [raised |-> "OverflowError", watched |-> acc.watched,
                   total |-> acc.total, percent |-> 0]
             ELSE [raised |-> "", watched |-> acc.watched, total |-> acc.total,
                   percent |-> Percent(acc.watched, acc.total)]

\* ------------------------------------------------------------------------
\* parse_progress
\* ------------------------------------------------------------------------
Arrow == <<"←", "-", "→">>

\* s has t at position i
HasAt(s, i, t) ==
    /\ i + Len(t) - 1 <= Len(s)
    /\ \A k \in 1..Len(t) : s[i + k - 1] = t[k]

\* the first position from i on that holds no whitespace (Len(s) + 1 if none)
RECURSIVE SkipSpace(_, _)
SkipSpace(s, i) ==
    IF i <= Len(s) /\ s[i] \in Whitespace THEN SkipSpace(s, i + 1) ELSE i

\* S(\d{2})E(\d{2})\s*←-→\s*(.+) matches s from position i
MatchAt(s, i) ==
    /\ i + 5 <= Len(s)
    /\ s[i] = "S"
    /\ s[i + 1] \in Digits /\ s[i + 2] \in Digits
    /\ s[i + 3] = "E"
    /\ s[i + 4] \in Digits /\ s[i + 5] \in Digits
    /\ HasAt(s, SkipSpace(s, i + 6), Arrow)
    /\ SkipSpace(s, i + 6) + Len(Arrow) <= Len(s)

\* re.search: the leftmost position the pattern matches from, 0 for none
Search(s) ==
    IF \E i \in 1..Len(s) : MatchAt(s, i)
    THEN CHOOSE i \in 1..Len(s) : MatchAt(s, i) /\ \A j \in 1..(i - 1) : ~MatchAt(s, j)
    ELSE 0

\* group 3 of the match at i: the greedy \s* leaves (.+) at least one character
Group3(s, i) ==
    LET rest == SubSeq(s, SkipSpace(s, i + 6) + Len(Arrow), Len(s))
    IN  IF LStrip(rest) # <<>> THEN LStrip(rest) ELSE <<rest[Len(rest)]>>

\* prog before the call
NoProg == [status |-> "", date |-> None]

\* parse_progress with the episode key set only for a truthy episode
parse_progress_DropsZeroEpisode(p) ==
    IF ~Truthy(p) \/ Strip(p) = Sentinel
    THEN [status |-> "Not started", date |-> None]
    ELSE LET i == Search(p)
         IN  IF i = 0
             THEN [status |-> "Unknown", date |-> None]
             ELSE IF DigitsValue(SubSeq(p, i + 4, i + 5)) = 0
             THEN [status  |-> "Watching",
                   season  |-> DigitsValue(SubSeq(p, i + 1, i + 2)),
                   date    |-> Group3(p, i)]
             ELSE [status  |-> "Watching",
                   season  |-> DigitsValue(SubSeq(p, i + 1, i + 2)),
                   episode |-> DigitsValue(SubSeq(p, i + 4, i + 5)),
                   date    |-> Group3(p, i)]

parse_progress(p) ==
    IF ~Truthy(p) \/ Strip(p) = Sentinel
    THEN [status |-> "Not started", date |-> None]
    ELSE LET i == Search(p)
         IN  IF i = 0
             THEN [status |-> "Unknown", date |-> None]
             ELSE [status  |-> "Watching",
                   season  |-> DigitsValue(SubSeq(p, i + 1, i + 2)),
                   episode |-> DigitsValue(SubSeq(p, i + 4, i + 5)),
                   date    |-> Group3(p, i)]

\* ------------------------------------------------------------------------
\* determine_status
\* ------------------------------------------------------------------------
\* determine_status with watched >= total in the first test
determine_status_AtLeast(watched, total) ==
    IF total > 0 /\ watched >= total THEN "Completed"
    ELSE IF watched > 0 THEN "Watching"
    ELSE "Not started"

determine_status(watched, total) ==
    IF total > 0 /\ watched = total THEN "Completed"
    ELSE IF watched > 0 THEN "Watching"
    ELSE "Not started"

\* ------------------------------------------------------------------------
\* parse_date: datetime.strptime(date_str, "%d-%m-%Y %H:%M:%S")
\* ------------------------------------------------------------------------
\* one or two digits with a value in lo..hi
NumberIn(t, lo, hi) ==
    Len(t) \in 1..2 /\ AllDigits(t) /\ DigitsValue(t) \in lo..hi

\* %d also takes a space and one digit from 1 to 9
DayText(t) ==
    \/ NumberIn(t, 1, 31)
    \/ Len(t) = 2 /\ t[1] = " " /\ NumberIn(<<t[2]>>, 1, 9)

DayValue(t) == IF t[1] = " " THEN DigitValue(t[2]) ELSE DigitsValue(t)

IsLeap(y) == y % 4 = 0 /\ (y % 100 # 0 \/ y % 400 = 0)

DaysIn(m, y) ==
    IF m = 2 THEN (IF IsLeap(y) THEN 29 ELSE 28)
    ELSE IF m \in {4, 6, 9, 11} THEN 30 ELSE 31

\* the text after the second '-': four digits, whitespace, H:M:S
YearTimeText(t) ==
    /\ Len(t) >= 5
    /\ AllDigits(SubSeq(t, 1, 4))
    /\ t[5] \in Whitespace
    /\ LET hms == Split(SubSeq(t, SkipSpace(t, 5), Len(t)), ":")
       IN  /\ Len(hms) = 3
           /\ NumberIn(hms[1], 0, 23)
           /\ NumberIn(hms[2], 0, 59)
           /\ NumberIn(hms[3], 0, 59)

\* the text matches the format and names a day of the calendar
ValidDateText(s) ==
    LET dmy == Split(s, "-")
    IN  /\ Len(dmy) = 3
        /\ DayText(dmy[1])
        /\ NumberIn(dmy[2], 1, 12)
        /\ YearTimeText(dmy[3])
        /\ DigitsValue(SubSeq(dmy[3], 1, 4)) >= 1
        /\ DayValue(dmy[1]) <= DaysIn(DigitsValue(dmy[2]), DigitsValue(SubSeq(dmy[3], 1, 4)))

\* the datetime of a valid text: <<year, month, day, hour, minute, second>>
DateTimeOf(s) ==
    LET dmy == Split(s, "-")
        hms == Split(SubSeq(dmy[3], SkipSpace(dmy[3], 5), Len(dmy[3])), ":")
    IN  <<DigitsValue(SubSeq(dmy[3], 1, 4)), DigitsValue(dmy[2]), DayValue(dmy[1]),
          DigitsValue(hms[1]), DigitsValue(hms[2]), DigitsValue(hms[3])>>

\* the datetime, or the exception strptime raises
Strptime(s) ==
    IF s = None THEN [raised |-> "TypeError", value |-> None]
    ELSE IF ~ValidDateText(s) THEN [raised |-> "ValueError", value |-> None]
    ELSE [raised |-> "", value |-> DateTimeOf(s)]

\* the classes an "except Exception" clause catches
Exception ==
    {"TypeError", "ValueError", "OverflowError", "ConnectionError", "Timeout",
     "HTTPError", "JSONDecodeError"}

\* the datetime or None, or the exception that leaves the function
parse_date(date_str) ==
    LET r == Strptime(date_str)
    IN  IF r.raised \in Exception THEN [raised |-> "", value |-> None] ELSE r

\* ------------------------------------------------------------------------
\* The results block: enrichment of the rows and sort_values
\* ------------------------------------------------------------------------
\* lines 277-290 for one row: the enriched record, or the exception raised
EnrichRow(row) ==
    LET t == parse_season_episodes(row.SEASONSEPISODES)
        p == parse_progress(row.PROGRESS)
        last_seen == parse_date(Get(p, "date", None))
    IN  IF t.raised # "" THEN [raised |-> t.raised, record |-> row]
        ELSE IF last_seen.raised # "" THEN [raised |-> last_seen.raised, record |-> row]
        ELSE [raised |-> "",
              record |-> [STATUS    |-> determine_status(t.watched, t.total),
                          WATCHED   |-> t.watched,
                          TOTAL     |-> t.total,
                          PERCENT   |-> t.percent,
                          LAST_SEEN |-> last_seen.value] @@ row]

\* the for loop of line 276: an exception ends it
RECURSIVE EnrichLoop(_, _)
EnrichLoop(enriched, rest) ==
    IF rest = <<>> THEN [raised |-> "", enriched |-> enriched]
    ELSE LET e == EnrichRow(Head(rest))
         IN  IF e.raised # "" THEN [raised |-> e.raised, enriched |-> enriched]
             ELSE EnrichLoop(Append(enriched, e.record), Tail(rest))

status_order == ("Watching" :> 0) @@ ("Not started" :> 1) @@ ("Completed" :> 2)

\* datetime a < datetime b
RECURSIVE TupleLess(_, _)
TupleLess(a, b) ==
    IF a = <<>> THEN FALSE
    ELSE Head(a) < Head(b) \/ (Head(a) = Head(b) /\ TupleLess(Tail(a), Tail(b)))

\* LAST_SEEN as ascending=[True, True] would sort it
LastSeenBefore_Ascending(x, y) ==
    x # None /\ (y = None \/ TupleLess(x, y))

\* LAST_SEEN descending: x sorts strictly before y; NaT (None) sorts last
LastSeenBefore(x, y) ==
    x # None /\ (y = None \/ TupleLess(y, x))

\* by=["STATUS_ORDER", "LAST_SEEN"], ascending=[True, False]
SortsBefore(a, b) ==
    \/ status_order[a.STATUS] < status_order[b.STATUS]
    \/ /\ status_order[a.STATUS] = status_order[b.STATUS]
       /\ LastSeenBefore(a.LAST_SEEN, b.LAST_SEEN)

\* e placed into a sorted list, after every record it does not sort before
RECURSIVE Insert(_, _)
Insert(e, sorted) ==
    IF sorted = <<>> THEN <<e>>
    ELSE IF SortsBefore(e, Head(sorted)) THEN <<e>> \o sorted
    ELSE <<Head(sorted)>> \o Insert(e, Tail(sorted))

\* sort_values: a stable sort
RECURSIVE sort_values(_)
sort_values(frame) ==
    IF frame = <<>> THEN <<>>
    ELSE Insert(frame[Len(frame)], sort_values(SubSeq(frame, 1, Len(frame) - 1)))

\* ------------------------------------------------------------------------
\* download_db, get_tmdb_poster and the widgets of a card
\* ------------------------------------------------------------------------
\* what requests.get and raise_for_status can do
HttpOutcomes == {"ok", "ConnectionError", "Timeout", "HTTPError"}

\* download_db, on a cache miss: the path, or the exception it lets through
download_db(outcome) ==
    IF outcome = "ok" THEN [raised |-> "", value |-> "Trakt_DBase.db"]
    ELSE [raised |-> outcome, value |-> ""]

TMDB_IMG_BASE == <<"w", "3", "0", "0">>

\* what the poster request can do: a poster_path, a body without one, or an
\* exception
PosterOutcomes ==
    {"poster", "no poster", "ConnectionError", "Timeout", "HTTPError", "JSONDecodeError"}

\* get_tmdb_poster without its try/except
get_tmdb_poster_Uncaught(tmdb_id, outcome) ==
    IF outcome = "poster"
    THEN [raised |-> "", value |-> TMDB_IMG_BASE \o <<"/">> \o tmdb_id]
    ELSE IF outcome = "no poster" THEN [raised |-> "", value |-> None]
    ELSE [raised |-> outcome, value |-> None]

\* get_tmdb_poster past the test of tmdb_id, on a cache miss: the url or None;
\* the except clause swallows what the request raises
get_tmdb_poster(tmdb_id, outcome) ==
    IF outcome = "poster"
    THEN [raised |-> "", value |-> TMDB_IMG_BASE \o <<"/">> \o tmdb_id]
    ELSE IF outcome = "no poster" THEN [raised |-> "", value |-> None]
    ELSE IF outcome \in Exception THEN [raised |-> "", value |-> None]
    ELSE [raised |-> outcome, value |-> None]

\* st.progress(value) raises unless 0.0 <= value <= 1.0; percent is in tenths
ProgressRaises(percent) == percent < 0 \/ percent > 1000

\* ------------------------------------------------------------------------
\* Genre normalisation
\* ------------------------------------------------------------------------
LowerLetters ==
    <<"a", "b", "c", "d", "e", "f", "g", "h", "i", "j", "k", "l", "m",
      "n", "o", "p", "q", "r", "s", "t", "u", "v", "w", "x", "y", "z">>

UpperLetters ==
    <<"A", "B", "C", "D", "E", "F", "G", "H", "I", "J", "K", "L", "M",
      "N", "O", "P", "Q", "R", "S", "T", "U", "V", "W", "X", "Y", "Z">>

IsUpper(c) == \E i \in 1..26 : UpperLetters[i] = c

IsLower(c) == \E i \in 1..26 : LowerLetters[i] = c

LowerChar(c) ==
    IF IsUpper(c) THEN LowerLetters[CHOOSE i \in 1..26 : UpperLetters[i] = c] ELSE c

UpperChar(c) ==
    IF IsLower(c) THEN UpperLetters[CHOOSE i \in 1..26 : LowerLetters[i] = c] ELSE c

\* str.lower()
Lower(s) == [i \in 1..Len(s) |-> LowerChar(s[i])]

\* str.title(): a letter that follows a letter is lowered, any other letter
\* is raised, every other character is kept
RECURSIVE TitleFrom(_, _)
TitleFrom(s, afterLetter) ==
    IF s = <<>> THEN <<>>
    ELSE IF IsUpper(Head(s)) \/ IsLower(Head(s))
         THEN <<IF afterLetter THEN LowerChar(Head(s)) ELSE UpperChar(Head(s))>>
                  \o TitleFrom(Tail(s), TRUE)
         ELSE <<Head(s)>> \o TitleFrom(Tail(s), FALSE)

\* str.capitalize() in the place of str.title()
Title_Capitalize(s) ==
    IF s = <<>> THEN <<>> ELSE <<UpperChar(Head(s))>> \o Lower(Tail(s))

Title(s) == TitleFrom(s, FALSE)

GENRE_CANONICAL ==
    (<<"a", "c", "t", "i", "o", "n">> :> <<"A", "c", "t", "i", "o", "n">>)
    @@ (<<"a", "d", "v", "e", "n", "t", "u", "r", "e">> :> <<"A", "d", "v", "e", "n", "t", "u", "r", "e">>)
    @@ (<<"a", "n", "i", "m", "a", "t", "i", "o", "n">> :> <<"A", "n", "i", "m", "a", "t", "i", "o", "n">>)
    @@ (<<"c", "h", "i", "l", "d", "r", "e", "n">> :> <<"C", "h", "i", "l", "d", "r", "e", "n">>)
    @@ (<<"f", "a", "m", "i", "l", "y">> :> <<"F", "a", "m", "i", "l", "y">>)
    @@ (<<"d", "r", "a", "m", "a">> :> <<"D", "r", "a", "m", "a">>)
    @@ (<<"t", "h", "r", "i", "l", "l", "e", "r">> :> <<"T", "h", "r", "i", "l", "l", "e", "r">>)
    @@ (<<"s", "u", "s", "p", "e", "n", "s", "e">> :> <<"S", "u", "s", "p", "e", "n", "s", "e">>)
    @@ (<<"m", "y", "s", "t", "e", "r", "y">> :> <<"M", "y", "s", "t", "e", "r", "y">>)
    @@ (<<"c", "r", "i", "m", "e">> :> <<"C", "r", "i", "m", "e">>)
    @@ (<<"f", "a", "n", "t", "a", "s", "y">> :> <<"F", "a", "n", "t", "a", "s", "y">>)
    @@ (<<"h", "o", "r", "r", "o", "r">> :> <<"H", "o", "r", "r", "o", "r">>)
    @@ (<<"s", "c", "i", "e", "n", "c", "e", "-", "f", "i", "c", "t", "i", "o", "n">> :> <<"S", "c", "i", "-", "F", "i">>)
    @@ (<<"s", "c", "i", "f", "i">> :> <<"S", "c", "i", "-", "F", "i">>)
    @@ (<<"c", "o", "m", "e", "d", "y">> :> <<"C", "o", "m", "e", "d", "y">>)
    @@ (<<"r", "o", "m", "a", "n", "c", "e">> :> <<"R", "o", "m", "a", "n", "c", "e">>)
    @@ (<<"r", "e", "a", "l", "i", "t", "y">> :> <<"R", "e", "a", "l", "i", "t", "y">>)
    @@ (<<"d", "o", "c", "u", "m", "e", "n", "t", "a", "r", "y">> :> <<"D", "o", "c", "u", "m", "e", "n", "t", "a", "r", "y">>)
    @@ (<<"d", "o", "c", "u", "m", "e", "n", "t", "a", "i", "r", "e">> :> <<"D", "o", "c", "u", "m", "e", "n", "t", "a", "r", "y">>)
    @@ (<<"d", "o", "c", "t", "o", "r">> :> <<"M", "e", "d", "i", "c", "a", "l">>)
    @@ (<<"d", "o", "c", "t", "o", "r", "s">> :> <<"M", "e", "d", "i", "c", "a", "l">>)
    @@ (<<"l", "a", "w", "y", "e", "r", "s">> :> <<"L", "e", "g", "a", "l">>)
    @@ (<<"c", "o", "p", "s">> :> <<"P", "o", "l", "i", "c", "e">>)
    @@ (<<"f", "b", "i">> :> <<"F", "B", "I">>)
    @@ (<<"c", "i", "a">> :> <<"C", "I", "A">>)
    @@ (<<"s", "p", "y">> :> <<"S", "p", "y">>)
    @@ (<<"m", "a", "r", "v", "e", "l">> :> <<"M", "a", "r", "v", "e", "l">>)
    @@ (<<"d", "c", " ", "c", "o", "m", "i", "c", "s">> :> <<"D", "C", " ", "C", "o", "m", "i", "c", "s">>)
    @@ (<<"s", "t", "a", "r", " ", "w", "a", "r", "s">> :> <<"S", "t", "a", "r", " ", "W", "a", "r", "s">>)
    @@ (<<"s", "t", "a", "r", " ", "t", "r", "e", "k">> :> <<"S", "t", "a", "r", " ", "T", "r", "e", "k">>)
    @@ (<<"s", "u", "p", "e", "r", "h", "e", "r", "o">> :> <<"S", "u", "p", "e", "r", "h", "e", "r", "o">>)
    @@ (<<"h", "e", "r", "o", "e", "s">> :> <<"H", "e", "r", "o", "e", "s">>)
    @@ (<<"v", "a", "m", "p", "i", "r", "e", "s">> :> <<"V", "a", "m", "p", "i", "r", "e", "s">>)
    @@ (<<"z", "o", "m", "b", "i", "e", "s">> :> <<"Z", "o", "m", "b", "i", "e", "s">>)
    @@ (<<"m", "o", "n", "s", "t", "e", "r", "s">> :> <<"M", "o", "n", "s", "t", "e", "r", "s">>)
    @@ (<<"w", "a", "r">> :> <<"W", "a", "r">>)
    @@ (<<"w", "e", "s", "t", "e", "r", "n">> :> <<"W", "e", "s", "t", "e", "r", "n">>)
    @@ (<<"s", "p", "o", "r", "t">> :> <<"S", "p", "o", "r", "t">>)
    @@ (<<"m", "u", "s", "i", "c">> :> <<"M", "u", "s", "i", "c">>)
    @@ (<<"h", "i", "s", "t", "o", "r", "y">> :> <<"H", "i", "s", "t", "o", "r", "y">>)
    @@ (<<"h", "o", "l", "i", "d", "a", "y">> :> <<"H", "o", "l", "i", "d", "a", "y">>)
    @@ (<<"t", "a", "l", "k", "-", "s", "h", "o", "w">> :> <<"T", "a", "l", "k", " ", "S", "h", "o", "w">>)
    @@ (<<"g", "a", "m", "e", "-", "s", "h", "o", "w">> :> <<"G", "a", "m", "e", " ", "S", "h", "o", "w">>)
    @@ (<<"s", "p", "e", "c", "i", "a", "l", "-", "i", "n", "t", "e", "r", "e", "s", "t">> :> <<"S", "p", "e", "c", "i", "a", "l", " ", "I", "n", "t", "e", "r", "e", "s", "t">>)

GENRE_BLACKLIST ==
    {<<"d", "e", "l", "e", "t", "e">>,
     <<"d", "e", "l", "e", "t", "e", "?">>,
     <<"d", "e", "l", "e", "t", "e", "!", "?">>,
     <<"s", "e", "l", "e", "c", "t", "e", "e", "r", " ", "g", "e", "n", "r", "e", "s", ".", ".", ".">>,
     <<>>}

\* x in a list
InList(x, list) == \E i \in 1..Len(list) : list[i] = x

\* the key without lower()
GenreKey_CaseSensitive(g) == Strip(g)

\* the key a token is looked up by
GenreKey(g) == Strip(Lower(g))

\* the for loop over the stripped tokens
RECURSIVE GenreLoop(_, _)
GenreLoop(normalized_, raw_genres) ==
    IF raw_genres = <<>> THEN normalized_
    ELSE LET g == Head(raw_genres)
             key == GenreKey(g)
             canonical == Get(GENRE_CANONICAL, key, Title(g))
         IN  IF key \in GENRE_BLACKLIST
             THEN GenreLoop(normalized_, Tail(raw_genres))
             ELSE IF ~InList(canonical, normalized_)
                  THEN GenreLoop(Append(normalized_, canonical), Tail(raw_genres))
                  ELSE GenreLoop(normalized_, Tail(raw_genres))

\* [g.strip() for g in raw_genre_text.split(",")]
RawGenres(text) ==
    LET parts == Split(text, ",")
    IN  [i \in 1..Len(parts) |-> Strip(parts[i])]

normalize_genres(raw) ==
    IF ~Truthy(raw) THEN <<>> ELSE GenreLoop(<<>>, RawGenres(raw))

\* ------------------------------------------------------------------------
\* Specification of the tally decoder: any tally code, then one call
\* ------------------------------------------------------------------------
TallyAlphabet == {"0", "1", "2", "/", "§", "x", "-", " "}

TallyInputs ==
    SeqsUpTo(TallyAlphabet, MaxTallyLen)
        \cup {None, Sentinel, <<" ">> \o Sentinel \o <<" ">>}

NoTally == [raised |-> "", watched |-> 0, total |-> 0, percent |-> 0]

InitTally ==
    /\ pc = "start"
    /\ value \in TallyInputs
    /\ tally = NoTally
    /\ progress = None
    /\ prog = NoProg
    /\ raw_genre_text = None
    /\ normalized = <<>>
    /\ renormalized = <<>>
    /\ rows = <<>>
    /\ df = <<>>
    /\ exception = ""
    /\ NoRun

CallParseSeasonEpisodes ==
    /\ pc = "start"
    /\ tally' = parse_season_episodes(value)
    /\ pc' = "done"
    /\ UNCHANGED <<value, progress, prog, raw_genre_text, normalized, renormalized,
                   rows, df, exception, runVars>>

NextTally == CallParseSeasonEpisodes

SpecTally == InitTally /\ [][NextTally]_vars

\* the '§'-separated segments of a tally code
Segments(v) == IF Truthy(v) THEN Split(v, "§") ELSE <<>>

\* exactly two integer substrings around one '/'
WellFormed(part) ==
    LET wt == Split(part, "/")
    IN  Len(wt) = 2 /\ IsInt(wt[1]) /\ IsInt(wt[2])

RECURSIVE SumWellFormed(_, _)
SumWellFormed(parts, k) ==
    IF parts = <<>> THEN 0
    ELSE (IF WellFormed(Head(parts)) THEN IntValue(Split(Head(parts), "/")[k]) ELSE 0)
         + SumWellFormed(Tail(parts), k)

\* C2: watched and total are the sums over exactly the well-formed segments;
\* a malformed segment adds nothing to either count.
C2_MalformedSegmentSkipped ==
    pc = "done" =>
        /\ tally.watched = SumWellFormed(Segments(value), 1)
        /\ tally.total = SumWellFormed(Segments(value), 2)

\* C3: every returned tally has watched >= 0, total >= 0, a percentage in
\* [0, 100], which is 0 when total = 0 and round(100 * watched / total, 1)
\* otherwise.
C3_TallyInRange ==
    pc = "done" =>
        /\ tally.watched >= 0
        /\ tally.total >= 0
        /\ tally.percent >= 0
        /\ tally.percent <= 1000
        /\ tally.total = 0 => tally.percent = 0
        /\ tally.total > 0 => tally.percent = RoundHalfEven(1000 * tally.watched, tally.total)

\* ------------------------------------------------------------------------
\* Specification of the progress decoder: any progress code, then one call
\* ------------------------------------------------------------------------
ProgressAlphabet == {"S", "E", "0", "1", " ", "x"}

TwoChars == [1..2 -> {"0", "1", "x"}]

MaybeSpace == {<<>>, <<" ">>}

\* codes built around the S..E.. arrow pattern, some of them broken
PatternInputs ==
    {pre \o <<"S">> \o se \o <<"E">> \o ep \o w1 \o ar \o w2 \o tail :
        pre \in {<<>>, <<"x">>}, se \in TwoChars, ep \in TwoChars,
        w1 \in MaybeSpace, ar \in {Arrow, <<"←", "→">>}, w2 \in MaybeSpace,
        tail \in SeqsUpTo({"1", " "}, MaxDateLen)}

ProgressInputs ==
    SeqsUpTo(ProgressAlphabet, MaxProgressLen)
        \cup PatternInputs
        \cup {None, Sentinel, <<" ">> \o Sentinel \o <<" ">>}

InitProgress ==
    /\ pc = "start"
    /\ progress \in ProgressInputs
    /\ prog = NoProg
    /\ value = None
    /\ tally = NoTally
    /\ raw_genre_text = None
    /\ normalized = <<>>
    /\ renormalized = <<>>
    /\ rows = <<>>
    /\ df = <<>>
    /\ exception = ""
    /\ NoRun

CallParseProgress ==
    /\ pc = "start"
    /\ prog' = parse_progress(progress)
    /\ pc' = "done"
    /\ UNCHANGED <<progress, value, tally, raw_genre_text, normalized, renormalized,
                   rows, df, exception, runVars>>

NextProgress == CallParseProgress

SpecProgress == InitProgress /\ [][NextProgress]_vars

\* empty or whitespace-only
Blank(s) == Strip(s) = <<>>

\* C4: an absent, empty, whitespace-only or sentinel code gives the
\* "not started" result; the "unparseable" result is given only for a
\* non-blank, non-sentinel code that does not match the pattern.
C4_NotStartedVersusUnparseable ==
    pc = "done" =>
        /\ (progress = None \/ Blank(progress) \/ progress = Sentinel)
               => prog.status = "Not started"
        /\ prog.status = "Unknown"
               => /\ progress # None
                  /\ ~Blank(progress)
                  /\ Strip(progress) # Sentinel
                  /\ Search(progress) = 0

HasSeason == "season" \in DOMAIN prog

HasEpisode == "episode" \in DOMAIN prog

\* C6 as stated: season and episode are both present or both absent, and
\* each is at least 1 when present.
C6_SeasonEpisodeFromOne ==
    pc = "done" =>
        /\ HasSeason <=> HasEpisode
        /\ HasSeason => prog.season >= 1 /\ prog.episode >= 1

\* C6 as amended: season and episode are both present or both absent, and
\* each is an integer from 0 to 99 when present.
C6_SeasonEpisodeTogether ==
    pc = "done" =>
        /\ HasSeason <=> HasEpisode
        /\ HasSeason => prog.season \in 0..99 /\ prog.episode \in 0..99

C6_Witness ==
    pc = "done" /\ HasSeason /\ HasEpisode /\ prog.season = 0 /\ prog.episode = 11

\* ------------------------------------------------------------------------
\* Specification of the genre normaliser: any genre text, one call, then a
\* second call on the labels of the first joined by commas
\* ------------------------------------------------------------------------
GenreTokens ==
    {<<"s", "c", "i", "f", "i">>,
     <<"S", "c", "i", "-", "F", "i">>,
     <<"s", "c", "i", "e", "n", "c", "e", "-", "f", "i", "c", "t", "i", "o", "n">>,
     <<" ", "D", "e", "l", "e", "t", "e">>,
     <<>>,
     <<"d", "e", "l", "e", "t", "e", "!", "?">>,
     <<"d", "r", "a", "m", "a">>,
     <<"f", "i", "l", "m", " ", "n", "o", "i", "r">>,
     <<"M", "e", "d", "i", "c", "a", "l">>,
     <<"t", "a", "l", "k", "-", "s", "h", "o", "w">>}

\* ",".join(list)
RECURSIVE Join(_)
Join(list) ==
    IF list = <<>> THEN <<>>
    ELSE IF Len(list) = 1 THEN list[1]
    ELSE list[1] \o <<",">> \o Join(Tail(list))

\* texts of 1..MaxGenreTokens sample tokens, every key of the table alone,
\* and an absent text
GenreInputs ==
    {Join(ts) : ts \in UNION {[1..n -> GenreTokens] : n \in 1..MaxGenreTokens}}
        \cup DOMAIN GENRE_CANONICAL
        \cup {None}

InitGenres ==
    /\ pc = "start"
    /\ raw_genre_text \in GenreInputs
    /\ normalized = <<>>
    /\ renormalized = <<>>
    /\ value = None
    /\ tally = NoTally
    /\ progress = None
    /\ prog = NoProg
    /\ rows = <<>>
    /\ df = <<>>
    /\ exception = ""
    /\ NoRun

CallNormalizeGenres ==
    /\ pc = "start"
    /\ normalized' = normalize_genres(raw_genre_text)
    /\ pc' = "normalized"
    /\ UNCHANGED <<raw_genre_text, renormalized, value, tally, progress, prog,
                   rows, df, exception, runVars>>

CallNormalizeGenresAgain ==
    /\ pc = "normalized"
    /\ renormalized' = normalize_genres(Join(normalized))
    /\ pc' = "done"
    /\ UNCHANGED <<raw_genre_text, normalized, value, tally, progress, prog,
                   rows, df, exception, runVars>>

NextGenres == CallNormalizeGenres \/ CallNormalizeGenresAgain

SpecGenres == InitGenres /\ [][NextGenres]_vars

\* the trimmed tokens of the text
Tokens == IF Truthy(raw_genre_text) THEN RawGenres(raw_genre_text) ELSE <<>>

Blacklisted(g) == Strip(Lower(g)) \in GENRE_BLACKLIST

\* the label a token stands for
LabelOf(g) ==
    IF Strip(Lower(g)) \in DOMAIN GENRE_CANONICAL
    THEN GENRE_CANONICAL[Strip(Lower(g))]
    ELSE Title(g)

\* positions of the tokens that are kept and stand for label
PositionsOf(label) ==
    {i \in 1..Len(Tokens) : ~Blacklisted(Tokens[i]) /\ LabelOf(Tokens[i]) = label}

Min(S) == CHOOSE x \in S : \A y \in S : x <= y

\* C7: the labels hold no duplicate, are exactly the labels of the tokens
\* that are not blacklisted, none of them is a blacklisted word, and they
\* stand in the order of the first token that maps to each.
C7_GenresDedupedFilteredOrdered ==
    pc # "start" =>
        /\ \A i, j \in 1..Len(normalized) : i # j => normalized[i] # normalized[j]
        /\ \A i \in 1..Len(normalized) : PositionsOf(normalized[i]) # {}
        /\ \A i \in 1..Len(Tokens) :
               ~Blacklisted(Tokens[i]) => InList(LabelOf(Tokens[i]), normalized)
        /\ \A i \in 1..Len(normalized) : ~Blacklisted(normalized[i])
        /\ \A i, j \in 1..Len(normalized) :
               i < j => Min(PositionsOf(normalized[i])) < Min(PositionsOf(normalized[j]))

\* two different tokens of one label around a token of another label: the
\* label takes the place of its first token
C7_Witness ==
    /\ pc # "start"
    /\ Len(normalized) = 2
    /\ Len(Tokens) = 3
    /\ Tokens[1] # Tokens[3]
    /\ PositionsOf(normalized[1]) = {1, 3}
    /\ PositionsOf(normalized[2]) = {2}

Progress1 == <<"S", "0", "1", "E", "0", "2", " ", "←", "-", "→", " ", "0", "1", "-", "0", "2", "-", "2", "0", "2", "4", " ", "1", "0", ":", "0", "0", ":", "0", "0">>

Progress2 == <<"S", "0", "1", "E", "0", "3", "←", "-", "→", "2", "-", "2", "-", "2", "0", "2", "4", " ", " ", "9", ":", "0", "5", ":", "0", "0">>

ProgressBadDate == <<"S", "0", "2", "E", "0", "1", " ", "←", "-", "→", " ", "3", "1", "-", "0", "2", "-", "2", "0", "2", "4", " ", "1", "0", ":", "0", "0", ":", "0", "0">>

ProgressSamples == {None, <<"x">>, Progress1, Progress2, ProgressBadDate}

\* a watched count of HugeDigits digits over a total of 1
HugeTally == [i \in 1..HugeDigits |-> "9"] \o <<"/", "1">>

TallySamples ==
    {None, <<"1", "/", "2">>, <<"2", "/", "2">>, <<"2", "/", "1">>, <<"1", "/", "x", "§", "0", "/", "2">>, HugeTally}

RowSamples ==
    [PROGRESS : ProgressSamples, SEASONSEPISODES : TallySamples, TMDB_ID : {None}]

InitEnrich ==
    /\ pc = "start"
    /\ rows \in SeqsUpTo(RowSamples, MaxRows)
    /\ df = <<>>
    /\ exception = ""
    /\ value = None
    /\ tally = NoTally
    /\ progress = None
    /\ prog = NoProg
    /\ raw_genre_text = None
    /\ normalized = <<>>
    /\ renormalized = <<>>
    /\ NoRun

\* lines 274-300: the loop, the frame and its sort, or the exception that
\* ends the run
EnrichAndSort ==
    /\ pc = "start"
    /\ LET e == EnrichLoop(<<>>, rows)
       IN  IF e.raised # ""
           THEN /\ pc' = "error"
                /\ exception' = e.raised
                /\ df' = <<>>
           ELSE /\ pc' = "done"
                /\ exception' = ""
                /\ df' = sort_values(e.enriched)
    /\ UNCHANGED <<rows, value, tally, progress, prog, raw_genre_text, normalized,
                   renormalized, runVars>>

NextEnrich == EnrichAndSort

SpecEnrich == InitEnrich /\ [][NextEnrich]_vars

\* the rank of a status in the claimed order
Rank(status) ==
    CASE status = "Watching" -> 0
      [] status = "Not started" -> 1
      [] status = "Completed" -> 2

\* C1: in the output every Watching record precedes every NotStarted record,
\* which precedes every Completed record; among records of one status the
\* parsed last-seen timestamps descend and all precede the absent ones.
C1_SortedByStatusThenLastSeen ==
    pc = "done" =>
        \A i, j \in 1..Len(df) :
            i < j =>
                /\ Rank(df[i].STATUS) <= Rank(df[j].STATUS)
                /\ df[i].STATUS = df[j].STATUS =>
                       /\ df[i].LAST_SEEN = None => df[j].LAST_SEEN = None
                       /\ (df[i].LAST_SEEN # None /\ df[j].LAST_SEEN # None)
                              => ~TupleLess(df[i].LAST_SEEN, df[j].LAST_SEEN)

\* two rows that enrichment had to swap: the later timestamp came second
C1_Witness ==
    /\ pc = "done"
    /\ Len(rows) = 2
    /\ df[1].STATUS = df[2].STATUS
    /\ df[1].LAST_SEEN # None /\ df[2].LAST_SEEN # None
    /\ TupleLess(df[2].LAST_SEEN, df[1].LAST_SEEN)
    /\ df[1].PROGRESS = rows[2].PROGRESS /\ df[1].PROGRESS # rows[1].PROGRESS

\* C5: the status of every enriched record is Completed iff total > 0 and
\* watched = total, else Watching iff watched > 0, else NotStarted; two
\* records of one tally code have one status whatever their progress codes.
C5_StatusFromTallyOnly ==
    pc = "done" =>
        /\ \A i \in 1..Len(df) :
               LET completed == df[i].TOTAL > 0 /\ df[i].WATCHED = df[i].TOTAL
               IN  /\ df[i].STATUS \in {"Completed", "Watching", "Not started"}
                   /\ df[i].STATUS = "Completed" <=> completed
                   /\ df[i].STATUS = "Watching" <=> (~completed /\ df[i].WATCHED > 0)
                   /\ df[i].STATUS = "Not started" <=> (~completed /\ df[i].WATCHED <= 0)
        /\ \A i, j \in 1..Len(df) :
               df[i].SEASONSEPISODES = df[j].SEASONSEPISODES => df[i].STATUS = df[j].STATUS

\* a record with more watched than total beside one of the same tally code
\* and another progress code
C5_Witness ==
    /\ pc = "done"
    /\ Len(df) = 2
    /\ df[1].WATCHED > df[1].TOTAL /\ df[1].TOTAL > 0
    /\ df[1].SEASONSEPISODES = df[2].SEASONSEPISODES
    /\ df[1].PROGRESS # df[2].PROGRESS

RawFields == {"PROGRESS", "SEASONSEPISODES", "TMDB_ID"}

Raw(record) == [f \in RawFields |-> record[f]]

Count(r, frame) == Cardinality({i \in 1..Len(frame) : Raw(frame[i]) = r})

\* C9: enrichment never raises and yields one enriched record per input
\* record, a permutation of the input, each with the derived fields of its
\* own codes.
C9_EnrichmentNeverRaises ==
    pc # "start" =>
        /\ pc = "done"
        /\ Len(df) = Len(rows)
        /\ \A r \in RowSamples : Count(r, df) = Count(r, rows)
        /\ \A i \in 1..Len(df) : df[i] = EnrichRow(Raw(df[i])).record

\* ------------------------------------------------------------------------
\* Specification of the script: one run per search, the two caches kept
\* from run to run
\* ------------------------------------------------------------------------
Zoektermen == {<<>>, <<" ">>, <<"a">>}

TmdbIds == {<<"7">>}

\* the rows a query can return
ResultRows ==
    [PROGRESS : {None, Progress1},
     SEASONSEPISODES : {<<"1", "/", "2">>, <<"2", "/", "1">>, HugeTally},
     TMDB_ID : TmdbIds \cup {None}]

Init ==
    /\ pc = "idle"
    /\ zoekterm = <<>>
    /\ dbCached = FALSE
    /\ posterCache = [id \in TmdbIds |-> <<"miss">>]
    /\ rows = <<>>
    /\ df = <<>>
    /\ cursor = 0
    /\ poster_url = None
    /\ lookup = ""
    /\ cards = <<>>
    /\ fetches = 0
    /\ lookups = 0
    /\ failed = ""
    /\ exception = ""
    /\ value = None
    /\ tally = NoTally
    /\ progress = None
    /\ prog = NoProg
    /\ raw_genre_text = None
    /\ normalized = <<>>
    /\ renormalized = <<>>

parserVars == <<value, tally, progress, prog, raw_genre_text, normalized, renormalized>>

\* the user submits a search term: the script runs again from the top
Rerun ==
    /\ pc \in {"idle", "done", "error"}
    /\ \E z \in Zoektermen :
           /\ zoekterm' = z
           /\ pc' = IF Truthy(Strip(z)) THEN "search" ELSE "done"
    /\ rows' = <<>>
    /\ df' = <<>>
    /\ cursor' = 0
    /\ poster_url' = None
    /\ lookup' = ""
    /\ cards' = <<>>
    /\ fetches' = 0
    /\ lookups' = 0
    /\ failed' = ""
    /\ exception' = ""
    /\ UNCHANGED <<dbCached, posterCache, parserVars>>

\* line 220: download_db through st.cache_data; one requests.get on a miss
DownloadDb ==
    /\ pc = "search"
    /\ \/ /\ dbCached
          /\ pc' = "query"
          /\ UNCHANGED <<dbCached, fetches, failed, exception>>
       \/ /\ ~dbCached
          /\ \E outcome \in HttpOutcomes :
                 LET r == download_db(outcome)
                 IN  /\ fetches' = fetches + 1
                     /\ dbCached' = (r.raised = "")
                     /\ pc' = IF r.raised = "" THEN "query" ELSE "error"
                     /\ failed' = IF r.raised = "" THEN "" ELSE "download_db"
                     /\ exception' = r.raised
    /\ UNCHANGED <<zoekterm, posterCache, rows, df, cursor, poster_url, lookup, cards,
                   lookups, parserVars>>

\* lines 221-300: the query, then the warning or the enrichment and the sort
SearchSeries ==
    /\ pc = "query"
    /\ \E result \in SeqsUpTo(ResultRows, MaxResultRows) :
           LET e == EnrichLoop(<<>>, result)
           IN  /\ rows' = result
               /\ IF result = <<>>
                  THEN /\ pc' = "done"
                       /\ df' = <<>>
                       /\ cursor' = 0
                       /\ UNCHANGED <<failed, exception>>
                  ELSE IF e.raised # ""
                  THEN /\ pc' = "error"
                       /\ df' = <<>>
                       /\ cursor' = 0
                       /\ failed' = "enrichment"
                       /\ exception' = e.raised
                  ELSE /\ pc' = "poster"
                       /\ df' = sort_values(e.enriched)
                       /\ cursor' = 1
                       /\ UNCHANGED <<failed, exception>>
    /\ UNCHANGED <<zoekterm, dbCached, posterCache, poster_url, lookup, cards, fetches,
                   lookups, parserVars>>

\* line 303: get_tmdb_poster through st.cache_data
PosterLookup ==
    /\ pc = "poster"
    /\ LET tmdb_id == df[cursor].TMDB_ID
       IN  \/ /\ ~Truthy(tmdb_id)
              /\ poster_url' = None
              /\ lookup' = "no id"
              /\ pc' = "card"
              /\ UNCHANGED <<posterCache, lookups, failed, exception>>
           \/ /\ Truthy(tmdb_id)
              /\ posterCache[tmdb_id] # <<"miss">>
              /\ poster_url' = posterCache[tmdb_id]
              /\ lookup' = "cached"
              /\ pc' = "card"
              /\ UNCHANGED <<posterCache, lookups, failed, exception>>
           \/ /\ Truthy(tmdb_id)
              /\ posterCache[tmdb_id] = <<"miss">>
              /\ \E outcome \in PosterOutcomes :
                     LET r == get_tmdb_poster(tmdb_id, outcome)
                     IN  /\ lookups' = lookups + 1
                         /\ lookup' = outcome
                         /\ poster_url' = r.value
                         /\ posterCache' =
                                IF r.raised = ""
                                THEN [posterCache EXCEPT ![tmdb_id] = r.value]
                                ELSE posterCache
                         /\ pc' = IF r.raised = "" THEN "card" ELSE "error"
                         /\ failed' = IF r.raised = "" THEN "" ELSE "get_tmdb_poster"
                         /\ exception' = r.raised
    /\ UNCHANGED <<zoekterm, dbCached, rows, df, cursor, cards, fetches, parserVars>>

\* lines 305-343: the card of the row; st.progress ends the run on a
\* percentage outside 0..100, after the image and the title were drawn
RenderCard ==
    /\ pc = "card"
    /\ LET row == df[cursor]
       IN  /\ cards' = Append(cards, [row      |-> cursor,
                                      image    |-> poster_url,
                                      lookup   |-> lookup,
                                      complete |-> ~ProgressRaises(row.PERCENT)])
           /\ IF ProgressRaises(row.PERCENT)
              THEN /\ pc' = "error"
                   /\ failed' = "st.progress"
                   /\ exception' = "StreamlitAPIException"
                   /\ UNCHANGED cursor
              ELSE /\ pc' = IF cursor = Len(df) THEN "done" ELSE "poster"
                   /\ cursor' = IF cursor = Len(df) THEN cursor ELSE cursor + 1
                   /\ UNCHANGED <<failed, exception>>
    /\ UNCHANGED <<zoekterm, dbCached, posterCache, rows, df, poster_url, lookup,
                   fetches, lookups, parserVars>>

\* ttl=600 of download_db runs out
DbCacheExpires ==
    /\ dbCached
    /\ dbCached' = FALSE
    /\ UNCHANGED <<pc, zoekterm, posterCache, rows, df, cursor, poster_url, lookup,
                   cards, fetches, lookups, failed, exception, parserVars>>

\* ttl=86400 of a get_tmdb_poster entry runs out
PosterCacheExpires ==
    /\ \E id \in TmdbIds :
           /\ posterCache[id] # <<"miss">>
           /\ posterCache' = [posterCache EXCEPT ![id] = <<"miss">>]
    /\ UNCHANGED <<pc, zoekterm, dbCached, rows, df, cursor, poster_url, lookup,
                   cards, fetches, lookups, failed, exception, parserVars>>

Next ==
    \/ Rerun
    \/ DownloadDb
    \/ SearchSeries
    \/ PosterLookup
    \/ RenderCard
    \/ DbCacheExpires
    \/ PosterCacheExpires

Spec == Init /\ [][Next]_vars

\* C10: a run whose data-source fetch fails made exactly one fetch, ended in
\* an error, rendered no card and issued no poster lookup; no run makes a
\* second fetch; a poster lookup that fails ends no run, and its card is
\* rendered without an image.
C10_FetchFailureFatalPosterFailureNot ==
    /\ fetches <= 1
    /\ failed = "download_db" =>
           /\ pc = "error"
           /\ fetches = 1
           /\ cards = <<>>
           /\ lookups = 0
    /\ failed # "get_tmdb_poster"
    /\ (lookup \in Exception /\ pc \in {"card", "poster", "done", "error"}) =>
           /\ poster_url = None
           /\ failed \in {"", "st.progress"}
    /\ \A i \in 1..Len(cards) :
           cards[i].lookup \in Exception => cards[i].image = None

\* a run that the fetch ended, after an earlier run whose poster lookup gave
\* no image, which the poster cache still holds
C10_Witness ==
    /\ pc = "error"
    /\ failed = "download_db"
    /\ exception = "Timeout"
    /\ fetches = 1
    /\ \E id \in TmdbIds : posterCache[id] = None

====
